---- MODULE Spec2Model ----
(***************************************************************************)
(* A model of the register-based virtual machine of src/src/vm.rs, of its  *)
(* opcode decoder (src/src/instruction.rs) and of the interactive loop     *)
(* that feeds it (src/src/repl/mod.rs).                                    *)
(*                                                                         *)
(* Representation of the Rust integer types.  TLC integers are the signed  *)
(* 32-bit integers, so                                                     *)
(*   - an i32 is itself;                                                   *)
(*   - a usize is written in two's complement: the integer u in            *)
(*     -2^31 .. 2^31-1 stands for u when u >= 0 and for 2^W + u when       *)
(*     u < 0, W the pointer width.  `x as usize` of an i32 x is then x     *)
(*     itself (sign extension), unsigned comparison is ULess, and the      *)
(*     carry of an unsigned addition is UAddCarries.  The arithmetic is    *)
(*     that of W = 32; for W = 64 only the magnitude of a wrapped value    *)
(*     differs (2^64 - k instead of 2^32 - k);                             *)
(*   - a u32 is the pair <<high 16 bits, low 16 bits>>.                    *)
(* A Rust index i (0-based) of the program Vec is element i + 1 of the     *)
(* TLA+ sequence; a register index and a heap address are themselves.      *)
(* (TLC prints a function whose domain is 1..n as a tuple: registers =     *)
(* <<256>> is the register file whose register 1 holds 256.)               *)
(***************************************************************************)
EXTENDS Integers, Sequences, FiniteSets, TLC

\* [i32; 32]: the register file
NumRegs == 32
\* [u8; 1000]: the heap
HeapSize == 1000
I32Max == 2147483647
I32Min == (-I32Max) - 1
U16Mod == 65536
ByteMod == 256

Min2(a, b) == IF a < b THEN a ELSE b

(***************************************************************************)
(* A zero-initialised array (the registers, the heap) is written as the    *)
(* function from the indices that hold a non-zero value to that value:     *)
(* every other index of the array holds 0.  Two arrays are equal exactly   *)
(* when their functions are.                                               *)
(***************************************************************************)
Zeroed == [k \in {} |-> 0]
Get(arr, i) == IF i \in DOMAIN arr THEN arr[i] ELSE 0
Put(arr, i, v) ==
    LET D == IF v = 0 THEN DOMAIN arr \ {i} ELSE DOMAIN arr \cup {i}
    IN  [k \in D |-> IF k = i THEN v ELSE arr[k]]

(***************************************************************************)
(* i32 arithmetic: the exact result when it fits, the wrapped result       *)
(* (release build) and the overflow test (debug build: panic).             *)
(***************************************************************************)
AddOverflows(a, b) ==
    \/ (b >= 0 /\ a > I32Max - b)
    \/ (b < 0 /\ a < I32Min - b)

WrapAdd(a, b) ==
    IF b >= 0 /\ a > I32Max - b THEN ((a - I32Max) - 1) + ((b - I32Max) - 1)
    ELSE IF b < 0 /\ a < I32Min - b THEN ((a + I32Max) + 1) + ((b + I32Max) + 1)
    ELSE a + b

SubOverflows(a, b) ==
    \/ (b > 0 /\ a < I32Min + b)
    \/ (b < 0 /\ a > I32Max + b)

WrapSub(a, b) ==
    IF b > 0 /\ a < I32Min + b THEN ((a + I32Max) + 1) + ((I32Max - b) + 1)
    ELSE IF b < 0 /\ a > I32Max + b THEN ((a - I32Max) - 1) + (I32Min - b)
    ELSE a - b

WrapNeg(a) == IF a = I32Min THEN I32Min ELSE -a

AbsI(a) == IF a < 0 THEN -a ELSE a

MulOverflows(a, b) ==
    IF a = 0 \/ b = 0 \/ a = 1 \/ b = 1 THEN FALSE
    ELSE IF a = I32Min \/ b = I32Min THEN TRUE
    ELSE IF a = -1 \/ b = -1 THEN FALSE
    ELSE IF (a > 0) = (b > 0) THEN AbsI(a) > I32Max \div AbsI(b)
    ELSE AbsI(a) > (I32Max \div AbsI(b))
                     + (IF I32Max % AbsI(b) = AbsI(b) - 1 THEN 1 ELSE 0)

\* `x as u32` of an i32, as <<high half, low half>>
I32AsU32(x) ==
    IF x >= 0 THEN <<x \div U16Mod, x % U16Mod>>
    ELSE LET y == (x + I32Max) + 1
         IN  <<32768 + (y \div U16Mod), y % U16Mod>>

\* the i32 with the bits of the u32 <<high half, low half>>
U32AsI32(w) ==
    IF w[1] >= 32768 THEN ((w[1] - U16Mod) * U16Mod) + w[2] ELSE (w[1] * U16Mod) + w[2]

\* the product of two 16-bit numbers, as <<high half, low half>>
MulU16(x, y) ==
    LET t1 == (x \div ByteMod) * y
        t0 == (x % ByteMod) * y
        low == ((t1 % ByteMod) * ByteMod) + t0
    IN  <<((t1 \div ByteMod) + (low \div U16Mod)) % U16Mod, low % U16Mod>>

\* a.wrapping_mul(b): the low 32 bits of the product, from the 16-bit halves
WrapMul(a, b) ==
    LET x == I32AsU32(a)
        y == I32AsU32(b)
        ll == MulU16(x[2], y[2])
    IN  U32AsI32(<<(ll[1] + MulU16(x[1], y[2])[2] + MulU16(x[2], y[1])[2]) % U16Mod,
                   ll[2]>>)

\* Rust's % on i32 for b # 0 and not (a = MIN, b = -1): the remainder has the
\* sign of the dividend.
RustRem(a, b) ==
    IF b = I32Min THEN (IF a = I32Min THEN 0 ELSE a)
    ELSE LET m == a % AbsI(b)
         IN  IF a < 0 /\ m # 0 THEN m - AbsI(b) ELSE m

(***************************************************************************)
(* usize arithmetic on the two's complement representatives.               *)
(***************************************************************************)
\* unsigned a < b
ULess(a, b) ==
    IF (a >= 0) = (b >= 0) THEN a < b ELSE a >= 0

\* the unsigned sum a + b does not fit the usize (a carry out of the top bit)
UAddCarries(a, b) ==
    IF a >= 0 /\ b >= 0 THEN FALSE
    ELSE IF a < 0 /\ b < 0 THEN TRUE
    ELSE WrapAdd(a, b) >= 0

\* the unsigned difference a - b is negative (a borrow)
USubBorrows(a, b) == ULess(a, b)

(***************************************************************************)
(* instruction.rs: the opcode of a byte.                                   *)
(***************************************************************************)
OpcodeNames ==
    <<"HLT", "LOAD", "ADD", "SUB", "MUL", "DIV", "JMP", "JMPF", "JMPB",
      "EQ", "NEQ", "GT", "LT", "GTQ", "LTQ", "JEQ", "LW", "SW">>

\* impl From<u8> for Opcode
OpcodeFromByte(v) ==
    IF v < Len(OpcodeNames) THEN OpcodeNames[v + 1] ELSE "IGL"

(***************************************************************************)
(* The process.  A Rust panic ends it where it happens: the state is the   *)
(* one the machine had at the panic, and nothing runs afterwards.          *)
(***************************************************************************)
PanicProgram == "panic: index out of bounds (program)"
PanicRegister == "panic: index out of bounds (registers)"
PanicHeap == "panic: index out of bounds (heap)"
PanicUnwrap == "panic: called Result::unwrap() on an Err value"
PanicOverflow == "panic: arithmetic overflow"
PanicDivZero == "panic: attempt to calculate the remainder with a divisor of zero"
PanicRemOverflow == "panic: attempt to calculate the remainder with overflow"

PanicKinds ==
    {PanicProgram, PanicRegister, PanicHeap, PanicUnwrap, PanicOverflow,
     PanicDivZero, PanicRemOverflow}

\* The machine m stops with a panic, its pc at c.
PanicAt(m, c, why) == [m EXCEPT !.pc = c, !.proc = why]

\* program[i] exists / is, for a Rust index i; registers[i]
HasByte(prog, i) == i >= 0 /\ i < Len(prog)
ByteAt(prog, i) == prog[i + 1]
Reg(m, i) == Get(m.registers, i)

(***************************************************************************)
(* vm.rs: the heap accessors.                                              *)
(***************************************************************************)
\* the big-endian word v[0..4] `as i32`
WordAsI32(b0, b1, b2, b3) ==
    ((IF b0 >= 128 THEN b0 - ByteMod ELSE b0) * 16777216)
        + (b1 * U16Mod) + (b2 * ByteMod) + b3

\* self.heap.get(addr..addr+4) is Some: the range lies in the heap
HeapRangeOk(addr) == addr >= 0 /\ addr <= HeapSize - 4

\* VM::load_word_from_heap, for a range that lies in the heap
load_word_from_heap(heap_, addr) ==
    WordAsI32(Get(heap_, addr), Get(heap_, addr + 1),
              Get(heap_, addr + 2), Get(heap_, addr + 3))

\* (value >> 24) as u8, (value >> 16) as u8, (value >> 8) as u8, value as u8
WordBytes(value) ==
    <<(value \div 16777216) % ByteMod, (value \div U16Mod) % ByteMod,
      (value \div ByteMod) % ByteMod, value % ByteMod>>

\* VM::store_word_into_heap: the loop `for i in 0..4 { heap[addr + i] = bytes[i] }`
\* from iteration i on; an index outside the heap panics, the bytes written
\* before it stay written.
RECURSIVE StoreLoop(_, _, _, _)
StoreLoop(m, bytes, addr, i) ==
    IF i = 4 THEN m
    ELSE LET j == WrapAdd(addr, i)
         IN  IF m.chk /\ UAddCarries(addr, i) THEN [m EXCEPT !.proc = PanicOverflow]
             ELSE IF ~(j >= 0 /\ j < HeapSize) THEN [m EXCEPT !.proc = PanicHeap]
             ELSE StoreLoop([m EXCEPT !.heap = Put(m.heap, j, bytes[i + 1])],
                            bytes, addr, i + 1)

store_word_into_heap(m, value, addr) == StoreLoop(m, WordBytes(value), addr, 0)

(***************************************************************************)
(* vm.rs: execute_instruction.  A machine is the record m of the VM's      *)
(* fields (registers, heap, pc, program, remainder) with                   *)
(*   proc  "alive", "exited" or the panic that ended the process,          *)
(*   chk   whether the build checks integer overflow (a debug build        *)
(*         panics on it, a release build wraps),                           *)
(*   ret   the value execute_instruction returned.                         *)
(* In the operators below p is the pc just after decode_opcode, so the     *)
(* operand bytes are program[p], program[p+1], program[p+2].  Each         *)
(* next_8_bits() indexes the program at the current pc and panics past     *)
(* its end; each self.registers[i] panics for i >= 32.  The checks are     *)
(* made in the order in which the code evaluates them.                     *)
(***************************************************************************)
\* The two leading `self.registers[self.next_8_bits() as usize]` reads of an
\* arm: "" when both succeed, else the panic, and the pc at that point.
TwoSourceReads(m, p) ==
    IF ~HasByte(m.program, p) THEN [why |-> PanicProgram, pc |-> p]
    ELSE IF ByteAt(m.program, p) >= NumRegs THEN [why |-> PanicRegister, pc |-> p + 1]
    ELSE IF ~HasByte(m.program, p + 1) THEN [why |-> PanicProgram, pc |-> p + 1]
    ELSE IF ByteAt(m.program, p + 1) >= NumRegs THEN [why |-> PanicRegister, pc |-> p + 2]
    ELSE [why |-> "", pc |-> p + 2]

\* a plausible slip in next_16_bits: the two bytes taken least significant first
next_16_bits_swapped(prog, p) == (ByteAt(prog, p + 1) * ByteMod) + ByteAt(prog, p)

\* VM::next_16_bits at pc = p: (program[p] << 8) | program[p + 1]
next_16_bits(prog, p) == (ByteAt(prog, p) * ByteMod) + ByteAt(prog, p + 1)

\* Opcode::LOAD
ExecLOAD(m, p) ==
    IF ~HasByte(m.program, p) THEN PanicAt(m, p, PanicProgram)
    ELSE IF ~HasByte(m.program, p + 1) \/ ~HasByte(m.program, p + 2)
         THEN PanicAt(m, p + 1, PanicProgram)
    ELSE LET register == ByteAt(m.program, p)
             number == next_16_bits(m.program, p + 1)
         IN  IF register >= NumRegs THEN PanicAt(m, p + 3, PanicRegister)
             ELSE [m EXCEPT !.registers = Put(m.registers, register, number), !.pc = p + 3, !.ret = TRUE]

\* Opcode::ADD, SUB, MUL: `self.registers[next_8_bits()] = register1 <op> register2`;
\* the right-hand side is evaluated before the destination byte is read.
ArithOverflows(op, a, b) ==
    CASE op = "SUB" -> SubOverflows(a, b)
      [] op = "MUL" -> MulOverflows(a, b)
      [] OTHER -> AddOverflows(a, b)

ArithWrap(op, a, b) ==
    CASE op = "SUB" -> WrapSub(a, b)
      [] op = "MUL" -> WrapMul(a, b)
      [] OTHER -> WrapAdd(a, b)

\* a plausible slip in the ADD, SUB and MUL arms: the arm is copied from DIV
\* and keeps its assignment of the remainder
ExecArithKeepsRemainder(m, p, op) ==
    LET s == TwoSourceReads(m, p)
    IN  IF s.why # "" THEN PanicAt(m, s.pc, s.why)
        ELSE LET register1 == Reg(m, ByteAt(m.program, p))
                 register2 == Reg(m, ByteAt(m.program, p + 1))
             IN  IF m.chk /\ ArithOverflows(op, register1, register2)
                    THEN PanicAt(m, p + 2, PanicOverflow)
                 ELSE IF ~HasByte(m.program, p + 2) THEN PanicAt(m, p + 2, PanicProgram)
                 ELSE IF ByteAt(m.program, p + 2) >= NumRegs
                    THEN PanicAt(m, p + 3, PanicRegister)
                 ELSE [m EXCEPT !.registers = Put(m.registers, ByteAt(m.program, p + 2),
                                                      ArithWrap(op, register1, register2)),
                                !.remainder =
                                    IF register2 = 0 \/ (register1 = I32Min /\ register2 = -1)
                                        THEN m.remainder
                                    ELSE I32AsU32(RustRem(register1, register2)),
                                !.pc = p + 3, !.ret = TRUE]

\* op is "ADD", "SUB" or "MUL" (DIV computes its destination as "ADD" does)
ExecArith(m, p, op) ==
    LET s == TwoSourceReads(m, p)
    IN  IF s.why # "" THEN PanicAt(m, s.pc, s.why)
        ELSE LET register1 == Reg(m, ByteAt(m.program, p))
                 register2 == Reg(m, ByteAt(m.program, p + 1))
             IN  IF m.chk /\ ArithOverflows(op, register1, register2)
                    THEN PanicAt(m, p + 2, PanicOverflow)
                 ELSE IF ~HasByte(m.program, p + 2) THEN PanicAt(m, p + 2, PanicProgram)
                 ELSE IF ByteAt(m.program, p + 2) >= NumRegs
                    THEN PanicAt(m, p + 3, PanicRegister)
                 ELSE [m EXCEPT !.registers = Put(m.registers, ByteAt(m.program, p + 2),
                                                      ArithWrap(op, register1, register2)),
                                !.pc = p + 3, !.ret = TRUE]

\* Opcode::DIV: the destination gets register1 + register2, then
\* `self.remainder = (register1 % register2) as u32`.
ExecDIV(m, p) ==
    LET a == ExecArith(m, p, "ADD")
    IN  IF a.proc # "alive" THEN a
        ELSE LET register1 == Reg(m, ByteAt(m.program, p))
                 register2 == Reg(m, ByteAt(m.program, p + 1))
             IN  IF register2 = 0 THEN [a EXCEPT !.proc = PanicDivZero, !.ret = FALSE]
                 ELSE IF register1 = I32Min /\ register2 = -1
                    THEN [a EXCEPT !.proc = PanicRemOverflow, !.ret = FALSE]
                 ELSE [a EXCEPT !.remainder = I32AsU32(RustRem(register1, register2))]

\* Opcode::JMP: `self.pc = target as usize`
ExecJMP(m, p) ==
    IF ~HasByte(m.program, p) THEN PanicAt(m, p, PanicProgram)
    ELSE IF ByteAt(m.program, p) >= NumRegs THEN PanicAt(m, p + 1, PanicRegister)
    ELSE [m EXCEPT !.pc = Reg(m, ByteAt(m.program, p)), !.ret = TRUE]

\* Opcode::JMPF: `self.pc += value`
ExecJMPF(m, p) ==
    IF ~HasByte(m.program, p) THEN PanicAt(m, p, PanicProgram)
    ELSE IF ByteAt(m.program, p) >= NumRegs THEN PanicAt(m, p + 1, PanicRegister)
    ELSE LET value == Reg(m, ByteAt(m.program, p))
         IN  IF m.chk /\ UAddCarries(p + 1, value) THEN PanicAt(m, p + 1, PanicOverflow)
             ELSE [m EXCEPT !.pc = WrapAdd(p + 1, value), !.ret = TRUE]

\* Opcode::JMPB: `self.pc -= value`
ExecJMPB(m, p) ==
    IF ~HasByte(m.program, p) THEN PanicAt(m, p, PanicProgram)
    ELSE IF ByteAt(m.program, p) >= NumRegs THEN PanicAt(m, p + 1, PanicRegister)
    ELSE LET value == Reg(m, ByteAt(m.program, p))
         IN  IF m.chk /\ USubBorrows(p + 1, value) THEN PanicAt(m, p + 1, PanicOverflow)
             ELSE [m EXCEPT !.pc = WrapSub(p + 1, value), !.ret = TRUE]

\* a plausible slip in the comparisons: the registers compared as unsigned words
HoldsUnsigned(op, a, b) ==
    CASE op = "EQ" -> a = b
      [] op = "NEQ" -> a # b
      [] op = "GT" -> ULess(b, a)
      [] op = "LT" -> ULess(a, b)
      [] op = "GTQ" -> ~ULess(a, b)
      [] OTHER -> ~ULess(b, a)

\* Opcode::EQ, NEQ, GT, LT, GTQ, LTQ
Holds(op, a, b) ==
    CASE op = "EQ" -> a = b
      [] op = "NEQ" -> a # b
      [] op = "GT" -> a > b
      [] op = "LT" -> a < b
      [] op = "GTQ" -> a >= b
      [] OTHER -> a <= b

ExecCompare(m, p, op) ==
    LET s == TwoSourceReads(m, p)
    IN  IF s.why # "" THEN PanicAt(m, s.pc, s.why)
        ELSE IF ~HasByte(m.program, p + 2) THEN PanicAt(m, p + 2, PanicProgram)
        ELSE LET register1 == Reg(m, ByteAt(m.program, p))
                 register2 == Reg(m, ByteAt(m.program, p + 1))
                 result == ByteAt(m.program, p + 2)
             IN  IF result >= NumRegs THEN PanicAt(m, p + 3, PanicRegister)
                 ELSE [m EXCEPT !.registers = Put(m.registers, result,
                                         IF Holds(op, register1, register2) THEN 1 ELSE 0),
                                !.pc = p + 3, !.ret = TRUE]

\* Opcode::JEQ
ExecJEQ(m, p) ==
    LET s == TwoSourceReads(m, p)
    IN  IF s.why # "" THEN PanicAt(m, s.pc, s.why)
        ELSE LET target == Reg(m, ByteAt(m.program, p))
                 compare_value == Reg(m, ByteAt(m.program, p + 1))
             IN  IF compare_value = 1 THEN [m EXCEPT !.pc = target, !.ret = TRUE]
                 ELSE IF ~HasByte(m.program, p + 2) THEN PanicAt(m, p + 2, PanicProgram)
                 ELSE [m EXCEPT !.pc = p + 3, !.ret = TRUE]

\* The address `addr + offset` handed to the heap accessors by LW and SW:
\* why is "" or the overflow panic of the addition.
ComposeAddr(m, addr, offset) ==
    IF m.chk /\ UAddCarries(addr, offset) THEN [why |-> PanicOverflow, addr |-> 0]
    ELSE [why |-> "", addr |-> WrapAdd(addr, offset)]

\* Opcode::LW: `registers[reg_dst] = load_word_from_heap(addr + offset).unwrap() as i32`
ExecLW(m, p) ==
    IF ~HasByte(m.program, p) THEN PanicAt(m, p, PanicProgram)
    ELSE IF ~HasByte(m.program, p + 1) THEN PanicAt(m, p + 1, PanicProgram)
    ELSE IF ByteAt(m.program, p + 1) >= NumRegs THEN PanicAt(m, p + 2, PanicRegister)
    ELSE IF ~HasByte(m.program, p + 2) THEN PanicAt(m, p + 2, PanicProgram)
    ELSE LET reg_dst == ByteAt(m.program, p)
             addr == Reg(m, ByteAt(m.program, p + 1))
             offset == ByteAt(m.program, p + 2)
             c == ComposeAddr(m, addr, offset)
         IN  IF c.why # "" THEN PanicAt(m, p + 3, c.why)
             \* addr..addr+4: the end of the range overflows
             ELSE IF m.chk /\ UAddCarries(c.addr, 4) THEN PanicAt(m, p + 3, PanicOverflow)
             \* heap.get(..) is None, the accessor returns Err, unwrap() panics
             ELSE IF ~HeapRangeOk(c.addr) THEN PanicAt(m, p + 3, PanicUnwrap)
             ELSE IF reg_dst >= NumRegs THEN PanicAt(m, p + 3, PanicRegister)
             ELSE [m EXCEPT !.registers = Put(m.registers, reg_dst,
                                                  load_word_from_heap(m.heap, c.addr)),
                            !.pc = p + 3, !.ret = TRUE]

\* Opcode::SW: `store_word_into_heap(value, addr + offset)`
ExecSW(m, p) ==
    LET s == TwoSourceReads(m, p)
    IN  IF s.why # "" THEN PanicAt(m, s.pc, s.why)
        ELSE IF ~HasByte(m.program, p + 2) THEN PanicAt(m, p + 2, PanicProgram)
        ELSE LET value == Reg(m, ByteAt(m.program, p))
                 addr == Reg(m, ByteAt(m.program, p + 1))
                 offset == ByteAt(m.program, p + 2)
                 c == ComposeAddr(m, addr, offset)
             IN  IF c.why # "" THEN PanicAt(m, p + 3, c.why)
                 ELSE LET w == store_word_into_heap([m EXCEPT !.pc = p + 3], value, c.addr)
                      IN  IF w.proc # "alive" THEN w ELSE [w EXCEPT !.ret = TRUE]

\* a plausible slip: the pc moves on although there is nothing to decode
NoMoreInstructionsAdvances(m) == [m EXCEPT !.pc = WrapAdd(m.pc, 1), !.ret = FALSE]

\* `if self.pc >= self.program.len() { return false; }`
NoMoreInstructions(m) == [m EXCEPT !.ret = FALSE]

\* a plausible slip: the arm falls through to the `true` that ends the function
ExecStopReturnsTrue(m, p) == [m EXCEPT !.pc = p, !.ret = TRUE]

\* Opcode::HLT and Opcode::IGL: `return false`, the opcode byte consumed
ExecStop(m, p) == [m EXCEPT !.pc = p, !.ret = FALSE]

\* VM::execute_instruction
execute_instruction(m0) ==
    LET m == [m0 EXCEPT !.ret = FALSE]
    IN  IF ~ULess(m.pc, Len(m.program)) THEN NoMoreInstructions(m)
        ELSE LET opcode == OpcodeFromByte(ByteAt(m.program, m.pc))
                 p == m.pc + 1
             IN  CASE opcode = "LOAD" -> ExecLOAD(m, p)
                   [] opcode = "ADD" -> ExecArith(m, p, "ADD")
                   [] opcode = "SUB" -> ExecArith(m, p, "SUB")
                   [] opcode = "MUL" -> ExecArith(m, p, "MUL")
                   [] opcode = "DIV" -> ExecDIV(m, p)
                   [] opcode = "JMP" -> ExecJMP(m, p)
                   [] opcode = "JMPF" -> ExecJMPF(m, p)
                   [] opcode = "JMPB" -> ExecJMPB(m, p)
                   [] opcode = "EQ" -> ExecCompare(m, p, "EQ")
                   [] opcode = "NEQ" -> ExecCompare(m, p, "NEQ")
                   [] opcode = "GT" -> ExecCompare(m, p, "GT")
                   [] opcode = "LT" -> ExecCompare(m, p, "LT")
                   [] opcode = "GTQ" -> ExecCompare(m, p, "GTQ")
                   [] opcode = "LTQ" -> ExecCompare(m, p, "LTQ")
                   [] opcode = "JEQ" -> ExecJEQ(m, p)
                   [] opcode = "LW" -> ExecLW(m, p)
                   [] opcode = "SW" -> ExecSW(m, p)
                   [] OTHER -> ExecStop(m, p)

(***************************************************************************)
(* repl/mod.rs: parse_hex.  A line is the list of its tokens, the result   *)
(* of c.split(" ") on the trimmed input; a token is the sequence of its    *)
(* characters.                                                             *)
(***************************************************************************)
HexLower == <<"0", "1", "2", "3", "4", "5", "6", "7", "8", "9",
              "a", "b", "c", "d", "e", "f">>
HexUpper == <<"0", "1", "2", "3", "4", "5", "6", "7", "8", "9",
              "A", "B", "C", "D", "E", "F">>

\* char::to_digit(16): the digit's value, -1 for a character that is no digit
DigitValue(c) ==
    IF \E i \in 1..16 : HexLower[i] = c
        THEN (CHOOSE i \in 1..16 : HexLower[i] = c) - 1
    ELSE IF \E i \in 1..16 : HexUpper[i] = c
        THEN (CHOOSE i \in 1..16 : HexUpper[i] = c) - 1
    ELSE -1

\* the digit loop of u8::from_str_radix(_, 16): -1 for Err (an invalid digit,
\* or a value above 255)
RECURSIVE ParseDigits(_, _)
ParseDigits(digits, acc) ==
    IF digits = <<>> THEN acc
    ELSE LET d == DigitValue(Head(digits))
         IN  IF d < 0 THEN -1
             ELSE IF (acc * 16) + d >= ByteMod THEN -1
             ELSE ParseDigits(Tail(digits), (acc * 16) + d)

\* u8::from_str_radix(hex, 16): the byte, or -1 for Err.  An empty token and
\* a lone sign are errors; one leading "+" is accepted.
from_str_radix(hex) ==
    IF hex = <<>> THEN -1
    ELSE IF Len(hex) = 1 /\ hex[1] \in {"+", "-"} THEN -1
    ELSE IF hex[1] = "+" THEN ParseDigits(Tail(hex), 0)
    ELSE ParseDigits(hex, 0)

\* a plausible slip in parse_hex: the bytes collected in the opposite order
parse_hex_reversed(split) ==
    IF \E i \in 1..Len(split) : from_str_radix(split[i]) < 0
        THEN [ok |-> FALSE, bytes |-> <<>>]
    ELSE [ok |-> TRUE,
          bytes |-> [i \in 1..Len(split) |-> from_str_radix(split[(Len(split) + 1) - i])]]

\* REPL::parse_hex: Ok(bytes) when every token parses, else Err
parse_hex(split) ==
    IF \E i \in 1..Len(split) : from_str_radix(split[i]) < 0
        THEN [ok |-> FALSE, bytes |-> <<>>]
    ELSE [ok |-> TRUE, bytes |-> [i \in 1..Len(split) |-> from_str_radix(split[i])]]

CmdQuit == <<<<".", "q", "u", "i", "t">>>>
CmdHistory == <<<<".", "h", "i", "s", "t", "o", "r", "y">>>>
CmdProgram == <<<<".", "p", "r", "o", "g", "r", "a", "m">>>>
CmdRegisters == <<<<".", "r", "e", "g", "i", "s", "t", "e", "r", "s">>>>

(***************************************************************************)
(* instruction.rs and lexer/mod.rs: assembler text.  A string is the       *)
(* sequence of its characters; Join gives the string itself.               *)
(***************************************************************************)
\* impl From<&str> for Opcode
OpcodeFromStr(v) ==
    CASE v = "hlt" -> "HLT"
      [] v = "load" -> "LOAD"
      [] v = "add" -> "ADD"
      [] v = "sub" -> "SUB"
      [] v = "mul" -> "MUL"
      [] v = "div" -> "DIV"
      [] v = "jmp" -> "JMP"
      [] v = "jmpf" -> "JMPF"
      [] v = "lmpb" -> "JMPB"
      [] v = "eq" -> "EQ"
      [] v = "neq" -> "NEQ"
      [] v = "gt" -> "GT"
      [] v = "lt" -> "LT"
      [] v = "gtq" -> "GTQ"
      [] v = "ltq" -> "LTQ"
      [] v = "jeq" -> "JEQ"
      [] v = "lw" -> "LW"
      [] v = "sw" -> "SW"
      [] OTHER -> "IGL"

\* the character classes of the terminal rules: [a-z] and \d (ASCII inputs)
LowerCase ==
    {"a", "b", "c", "d", "e", "f", "g", "h", "i", "j", "k", "l", "m",
     "n", "o", "p", "q", "r", "s", "t", "u", "v", "w", "x", "y", "z"}
Digits == {"0", "1", "2", "3", "4", "5", "6", "7", "8", "9"}

\* Match::as_str: the matched characters as one string
RECURSIVE Join(_)
Join(cs) == IF cs = <<>> THEN "" ELSE Head(cs) \o Join(Tail(cs))

\* a greedy repetition: how many characters of the class follow position i - 1
RECURSIVE Run(_, _, _)
Run(s, i, class) ==
    IF i > Len(s) \/ s[i] \notin class THEN 0 ELSE 1 + Run(s, i + 1, class)

\* a regex is unanchored and the leftmost match wins: the least position of a set
Leftmost(S) == CHOOSE i \in S : \A j \in S : i <= j

\* (?P<op>[a-z]+): where the rule matches, and its capture "op"
OpcodeStarts(s) == {i \in 1..Len(s) : s[i] \in LowerCase}
OpcodeCapture(s) ==
    LET i == Leftmost(OpcodeStarts(s))
    IN  SubSeq(s, i, (i + Run(s, i, LowerCase)) - 1)

\* \$(?P<reg>\d{1,2}): where the rule matches, and its capture "reg"
RegisterStarts(s) == {i \in 1..(Len(s) - 1) : s[i] = "$" /\ s[i + 1] \in Digits}
RegisterCapture(s) ==
    LET i == Leftmost(RegisterStarts(s))
    IN  SubSeq(s, i + 1, i + Min2(2, Run(s, i + 1, Digits)))

\* \#(?P<intop>\d+): where the rule matches, and its capture "intop"
IntegerStarts(s) == {i \in 1..(Len(s) - 1) : s[i] = "#" /\ s[i + 1] \in Digits}
IntegerCapture(s) ==
    LET i == Leftmost(IntegerStarts(s))
    IN  SubSeq(s, i + 1, i + Run(s, i + 1, Digits))

\* str::parse for an unsigned run of decimal digits with checked arithmetic:
\* the number, or -1 for Err (the number exceeds max)
RECURSIVE ParseDecimal(_, _, _)
ParseDecimal(digits, acc, max) ==
    IF digits = <<>> THEN acc
    ELSE LET d == DigitValue(Head(digits))
         IN  IF acc > (max - d) \div 10 THEN -1
             ELSE ParseDecimal(Tail(digits), (acc * 10) + d, max)

\* the outcomes of a lexer call: Ok(tokens), Err(message), or a panic of unwrap()
LexOk(tokens) == [ok |-> TRUE, tokens |-> tokens, why |-> ""]
LexErr == [ok |-> FALSE, tokens |-> <<>>, why |-> ""]
LexPanic == [ok |-> FALSE, tokens |-> <<>>, why |-> PanicUnwrap]

\* Lexer::parse_str: the first terminal rule that matches decides the token
parse_str(src) ==
    IF OpcodeStarts(src) # {}
        THEN LexOk(<<[type |-> "Opcode", val |-> OpcodeFromStr(Join(OpcodeCapture(src)))]>>)
    ELSE IF RegisterStarts(src) # {}
        THEN LET n == ParseDecimal(RegisterCapture(src), 0, ByteMod - 1)
             IN  IF n < 0 THEN LexPanic
                 ELSE LexOk(<<[type |-> "Register", val |-> n]>>)
    ELSE IF IntegerStarts(src) # {}
        THEN LET i == ParseDecimal(IntegerCapture(src), 0, I32Max)
             IN  IF i < 0 THEN LexPanic
                 ELSE LexOk(<<[type |-> "IntegerOperand", val |-> i]>>)
    ELSE LexErr

\* str::split(" "): the pieces between the spaces (always at least one)
RECURSIVE Split(_)
Split(s) ==
    LET spaces == {i \in 1..Len(s) : s[i] = " "}
    IN  IF spaces = {} THEN <<s>>
        ELSE <<SubSeq(s, 1, Leftmost(spaces) - 1)>>
                 \o Split(SubSeq(s, Leftmost(spaces) + 1, Len(s)))

\* Lexer::parse_instruction: at most four arguments, each a token; the tokens
\* are the opcode and arg1..arg3 (None for those that are missing)
parse_instruction(inst) ==
    LET args == Split(inst)
        parsed == [i \in 1..Len(args) |-> parse_str(args[i])]
        failed == {i \in 1..Len(args) : ~parsed[i].ok}
    IN  IF Len(args) > 4 THEN LexErr
        ELSE IF failed # {}
            THEN (IF parsed[Leftmost(failed)].why # "" THEN LexPanic ELSE LexErr)
        ELSE LexOk([i \in 1..Len(args) |-> parsed[i].tokens[1]])

(***************************************************************************)
(* The state.                                                              *)
(***************************************************************************)
VARIABLES
    registers,       \* VM.registers: [i32; 32], by index
    heap,            \* VM.heap: [u8; 1000], by address
    pc,              \* VM.pc: usize
    program,         \* VM.program: Vec<u8>
    remainder,       \* VM.remainder: u32
    proc,            \* "alive", "exited" (.quit) or the panic that ended the process
    chk,             \* the build checks integer overflow (debug) or wraps (release)
    runpc,           \* VM::run: "idle" outside it, "while" at its loop test, "call" in its body
    is_done,         \* VM::run's local is_done
    driver,          \* who runs: "api" (a caller of the VM's pub fns), "repl" or "lexer"
    input,           \* the bytes the api caller has yet to pass to add_program_byte
    stdin,           \* the lines the user has yet to type to the REPL
    command_buffer,  \* REPL.command_buffer
    printed,         \* what the REPL printed for the line it processed last
    steps,           \* how many instructions have been decoded so far
    last,            \* the last call of execute_instruction, as observed
    prev,            \* the call before it
    src,             \* the text a caller of the Lexer has yet to pass to it
    result           \* what the Lexer call returned: its caller ("by") and outcome

vmvars == <<registers, heap, pc, program, remainder>>
vars == <<registers, heap, pc, program, remainder, proc, chk, runpc, is_done,
          driver, input, stdin, command_buffer, printed, steps, last, prev,
          src, result>>

\* How many instructions a run of the model decodes at most.
MaxSteps == 4

Machine ==
    [registers |-> registers, heap |-> heap, pc |-> pc, program |-> program,
     remainder |-> remainder, proc |-> proc, chk |-> chk, ret |-> FALSE]

\* What a call of execute_instruction on machine m saw: the opcode at pc ("EOP"
\* when pc is at or past the end), the pc, the bytes that follow the opcode
\* byte (at most three), the registers before the call, who called, and the
\* value the call returned (FALSE when it panicked instead).
Observe(m, by, ret) ==
    IF ~ULess(m.pc, Len(m.program))
        THEN [op |-> "EOP", p |-> m.pc, a |-> <<>>, regs |-> m.registers, by |-> by,
              ret |-> ret]
    ELSE [op |-> OpcodeFromByte(ByteAt(m.program, m.pc)), p |-> m.pc,
          a |-> SubSeq(m.program, m.pc + 2, Min2(m.pc + 4, Len(m.program))),
          regs |-> m.registers, by |-> by, ret |-> ret]

NoCall ==
    [op |-> "NONE", p |-> 0, a |-> <<>>, regs |-> Zeroed,
     by |-> "none", ret |-> FALSE]

\* The state after execute_instruction ran on machine m (the current machine,
\* or the current one with bytes appended to its program).
Executed(m, by) ==
    LET r == execute_instruction(m)
    IN  /\ registers' = r.registers
        /\ heap' = r.heap
        /\ pc' = r.pc
        /\ program' = r.program
        /\ remainder' = r.remainder
        /\ proc' = r.proc
        /\ is_done' = IF by = "run" /\ r.proc = "alive" THEN r.ret ELSE is_done
        /\ steps' = IF ULess(m.pc, Len(m.program)) THEN steps + 1 ELSE steps
        /\ last' = Observe(m, by, r.ret)
        /\ prev' = last

\* A call decodes an instruction only while the model's step budget lasts; the
\* end-of-program check is always possible.
MayStep(m) == steps < MaxSteps \/ ~ULess(m.pc, Len(m.program))

(***************************************************************************)
(* The operations of the VM, called by an api caller.                      *)
(***************************************************************************)
\* a plausible slip in add_program_byte: the byte inserted at the front
add_program_byte_in_front ==
    /\ driver = "api" /\ proc = "alive" /\ runpc = "idle"
    /\ input # <<>>
    /\ program' = <<Head(input)>> \o program
    /\ input' = Tail(input)
    /\ UNCHANGED <<registers, heap, pc, remainder, proc, chk, src, result, runpc, is_done, driver,
                   stdin, command_buffer, printed, steps, last, prev>>

\* VM::add_program_byte
add_program_byte ==
    /\ driver = "api" /\ proc = "alive" /\ runpc = "idle"
    /\ input # <<>>
    /\ program' = Append(program, Head(input))
    /\ input' = Tail(input)
    /\ UNCHANGED <<registers, heap, pc, remainder, proc, chk, src, result, runpc, is_done, driver,
                   stdin, command_buffer, printed, steps, last, prev>>

\* VM::run_once
run_once ==
    /\ driver = "api" /\ proc = "alive" /\ runpc = "idle"
    /\ MayStep(Machine)
    /\ Executed(Machine, "run_once")
    /\ UNCHANGED <<chk, src, result, runpc, driver, input, stdin, command_buffer, printed>>

\* VM::run, entered: `let mut is_done = false`
run_enter ==
    /\ driver = "api" /\ proc = "alive" /\ runpc = "idle"
    /\ runpc' = "while"
    /\ is_done' = FALSE
    /\ UNCHANGED <<registers, heap, pc, program, remainder, proc, chk, src, result, driver, input,
                   stdin, command_buffer, printed, steps, last, prev>>

\* VM::run, `while !is_done`: the condition holds, the body is entered
run_continue ==
    /\ driver = "api" /\ proc = "alive" /\ runpc = "while"
    /\ ~is_done
    /\ runpc' = "call"
    /\ UNCHANGED <<registers, heap, pc, program, remainder, proc, chk, src, result, is_done, driver,
                   input, stdin, command_buffer, printed, steps, last, prev>>

\* VM::run, the body: `is_done = self.execute_instruction()`
run_iterate ==
    /\ driver = "api" /\ proc = "alive" /\ runpc = "call"
    /\ MayStep(Machine)
    /\ Executed(Machine, "run")
    /\ runpc' = IF proc' = "alive" THEN "while" ELSE runpc
    /\ UNCHANGED <<chk, src, result, driver, input, stdin, command_buffer, printed>>

\* VM::run, `while !is_done`: the condition fails, run returns
run_return ==
    /\ driver = "api" /\ proc = "alive" /\ runpc = "while"
    /\ is_done
    /\ runpc' = "idle"
    /\ UNCHANGED <<registers, heap, pc, program, remainder, proc, chk, src, result, is_done, driver,
                   input, stdin, command_buffer, printed, steps, last, prev>>

(***************************************************************************)
(* repl/mod.rs: one iteration of REPL::run's loop, on the next line.       *)
(***************************************************************************)
repl_line ==
    /\ driver = "repl" /\ proc = "alive"
    /\ stdin # <<>>
    /\ LET buffer == Head(stdin)
           parsed == parse_hex(buffer)
           fed == [Machine EXCEPT !.program = program \o parsed.bytes]
       IN  /\ stdin' = Tail(stdin)
           /\ command_buffer' = Append(command_buffer, buffer)
           /\ IF buffer = CmdQuit
                 THEN /\ proc' = "exited"
                      /\ printed' = "Farewell! Have a great day!"
                      /\ UNCHANGED <<registers, heap, pc, program, remainder, is_done,
                                     steps, last, prev>>
              ELSE IF buffer \in {CmdHistory, CmdProgram, CmdRegisters}
                 THEN /\ printed' = "listing"
                      /\ UNCHANGED <<registers, heap, pc, program, remainder, proc,
                                     is_done, steps, last, prev>>
              ELSE /\ MayStep(fed)
                   /\ printed' = IF parsed.ok THEN ""
                                 ELSE "Unable to parse hex string (it should be 4 bytes)."
                   /\ Executed(fed, "repl")
    /\ UNCHANGED <<chk, src, result, runpc, driver, input>>

(***************************************************************************)
(* lexer/mod.rs: the calls of a Lexer's pub fns on a text.                 *)
(***************************************************************************)
NoResult == [by |-> "none", out |-> LexErr]

Returned(by, out) ==
    /\ result' = [by |-> by, out |-> out]
    /\ proc' = IF out.why # "" THEN out.why ELSE proc
    /\ UNCHANGED <<registers, heap, pc, program, remainder, chk, runpc, is_done, driver,
                   input, stdin, command_buffer, printed, steps, last, prev, src>>

\* a call of Lexer::parse_str on the text
call_parse_str ==
    /\ driver = "lexer" /\ proc = "alive" /\ result = NoResult
    /\ Returned("parse_str", parse_str(src))

\* a call of Lexer::parse_instruction on the text
call_parse_instruction ==
    /\ driver = "lexer" /\ proc = "alive" /\ result = NoResult
    /\ Returned("parse_instruction", parse_instruction(src))

(***************************************************************************)
(* The inputs: the programs an api caller feeds byte by byte, and the      *)
(* lines a user types.                                                     *)
(***************************************************************************)
\* How many instructions of the menu a fed program holds at most.
MaxFeed == 2
\* How many lines a REPL session holds at most.
MaxLines == 3

RECURSIVE Flatten(_)
Flatten(ss) == IF ss = <<>> THEN <<>> ELSE Head(ss) \o Flatten(Tail(ss))

SeqsUpTo(S, n) == UNION {[1..k -> S] : k \in 0..n}

\* the two-character token of a byte, and the line of an instruction
HexToken(b) == <<HexLower[(b \div 16) + 1], HexLower[(b % 16) + 1]>>
HexLine(bytes) == [i \in 1..Len(bytes) |-> HexToken(bytes[i])]

\* Encoded instructions: load $0 #997; load $1 #256; load $32 #0; div $1 $0 $2;
\* jmp $1; sw $0 0($0); lw $2 0($0); hlt; an unassigned opcode byte.
Menu ==
    {<<1, 0, 3, 229>>, <<1, 1, 1, 0>>, <<1, 32, 0, 0>>, <<5, 1, 0, 2>>,
     <<6, 1>>, <<17, 0, 0, 0>>, <<16, 2, 0, 0>>, <<0>>, <<200>>}

Feeds == {Flatten(ss) : ss \in SeqsUpTo(Menu, MaxFeed)}

\* Lines that are no control command and do not parse: a token that is no
\* number, a bad token after a good one, the empty line, a value above 255.
BadLines ==
    {<< <<"z", "z">> >>, << <<"0", "1">>, <<"0", "g">> >>, << <<>> >>,
     << <<"1", "0", "0">> >>}

\* Lines of tokens that parse: hlt; load $0 #997; load $1 #256 then a hlt byte;
\* jmp $1; the byte 200 in upper case; load $2 #5 written with a sign and with
\* one digit.
GoodLines ==
    {HexLine(<<0>>), HexLine(<<1, 0, 3, 229>>), HexLine(<<1, 1, 1, 0, 0>>),
     HexLine(<<6, 1>>), << <<"C", "8">> >>,
     << <<"1">>, <<"+", "2">>, <<"0", "0">>, <<"0", "5">> >>}

Lines == GoodLines \cup BadLines \cup {CmdQuit, CmdHistory, CmdProgram, CmdRegisters}

Sessions == SeqsUpTo(Lines, MaxLines)

\* VM::new() and REPL::new(), under either driver, build and pending input
InitWith(regs, feeds, sessions) ==
    /\ registers \in regs
    /\ heap = Zeroed
    /\ pc = 0
    /\ program = <<>>
    /\ remainder = <<0, 0>>
    /\ proc = "alive"
    /\ chk \in BOOLEAN
    /\ runpc = "idle"
    /\ is_done = FALSE
    /\ driver \in {"api", "repl"}
    /\ input \in (IF driver = "api" THEN feeds ELSE {<<>>})
    /\ stdin \in (IF driver = "repl" THEN sessions ELSE {<<>>})
    /\ command_buffer = <<>>
    /\ printed = ""
    /\ steps = 0
    /\ last = NoCall
    /\ prev = NoCall
    /\ src = <<>>
    /\ result = NoResult

Init == InitWith({Zeroed}, Feeds, Sessions)

Next ==
    \/ add_program_byte
    \/ run_once
    \/ run_enter
    \/ run_continue
    \/ run_iterate
    \/ run_return
    \/ repl_line

Spec == Init /\ [][Next]_vars

(***************************************************************************)
(* Specifications of single instructions.  `registers` is a pub field of   *)
(* the VM: its owner sets registers before stepping, as the tests of       *)
(* vm.rs do (test_jmpf_opcode, test_jeq_opcode, test_lw_sw_opcodes).  The  *)
(* machines below start as VM::new() with registers 0 and 1 so set; every  *)
(* i32 is also a value that LOAD, SUB and MUL steps leave in a register.   *)
(***************************************************************************)
Preset(V0, V1) == {Put(Put(Zeroed, 0, v0), 1, v1) : v0 \in V0, v1 \in V1}

\* a REPL session that types the given instructions, one per line
OnePerLine(instrs) == [i \in 1..Len(instrs) |-> HexLine(instrs[i])]

\* Heap words: register 0 holds the value stored, register 1 a base address
\* (register 2 holds 0); sw $0 o1($b1) is followed by lw $d o2($b2).
HeapValues == {1589, -1, I32Min}
HeapBases == {32, -8, 996, 997}
HeapOffsets == {0, 8, 40}
HeapPrograms ==
    {<< <<17, 0, b1, o1>>, <<16, d, b2, o2>> >> :
        o1 \in HeapOffsets, o2 \in HeapOffsets, d \in {1, 3},
        b1 \in {1, 2}, b2 \in {1, 2}}

InitHeap ==
    InitWith(Preset(HeapValues, HeapBases),
             {Flatten(q) : q \in HeapPrograms},
             {OnePerLine(q) : q \in HeapPrograms})

SpecHeap == InitHeap /\ [][Next]_vars

\* Jumps: register 0 holds the target or distance, register 1 the flag; the
\* jump is the first instruction or follows load $3 #0, and two bytes follow it.
JumpValues == {0, 2, 7, -1, -2}
JumpFlags == {0, 1, 2, -1}
JumpPrograms ==
    {pre \o << j, <<0, 0>> >> :
        pre \in {<<>>, << <<1, 3, 0, 0>> >>},
        j \in {<<15, 0, 1, 2>>, <<7, 0>>, <<8, 0>>, <<6, 0>>}}

InitJump ==
    InitWith(Preset(JumpValues, JumpFlags),
             {Flatten(q) : q \in JumpPrograms},
             {OnePerLine(q) : q \in JumpPrograms})

SpecJump == InitJump /\ [][Next]_vars

\* Single steps: registers 0 and 1 hold the operands (or, for LW and SW, the
\* value and the base address), and the program is one instruction.
StepValues == {0, 1, -1, 2, 7, -7, I32Max, I32Min}

\* load $i #v for the first, the second and the last register and five
\* 16-bit numbers: 0, 255, 256, 500 and 65535
LoadPrograms ==
    {<<1, i, hi, lo>> : i \in {0, 1, 31}, hi \in {0, 1, 255}, lo \in {0, 244, 255}}

\* the operand layouts R1, R2, Rd of an arithmetic or comparison instruction:
\* three registers, the destination a source, and one register throughout
RegisterLayouts == {<<0, 1, 2>>, <<1, 0, 0>>, <<0, 0, 31>>}

StepPrograms ==
    LoadPrograms
    \cup {<<op>> \o r : op \in {2, 3, 4, 5, 9, 10, 11, 12, 13, 14}, r \in RegisterLayouts}
    \cup {<<15, 0, 1, 2>>, <<16, 2, 1, 0>>, <<17, 0, 1, 3>>}
    \cup {<<0>>, <<0, 1, 2, 3>>, <<18>>, <<200, 0, 1>>, <<255>>}

InitStep ==
    InitWith(Preset(StepValues, StepValues), StepPrograms,
             {<<HexLine(q)>> : q \in StepPrograms})

SpecStep == InitStep /\ [][Next]_vars

\* Frames: a first instruction leaves a remainder (div), a heap word (sw) or
\* a register (load) behind, and an instruction of every opcode follows it.
\* Register 0 holds a value, register 1 a small divisor, target or base address.
FrameValues == {7, -7, I32Min}
FrameSmall == {2, 1, -1}
FrameFirst == {<<5, 0, 1, 2>>, <<17, 0, 1, 8>>, <<1, 3, 1, 244>>}
FrameSecond ==
    {<<op, 0, 1, 2>> : op \in {2, 3, 4, 9, 10, 11, 12, 13, 14, 15}}
    \cup {<<1, 2, 1, 244>>, <<5, 0, 1, 0>>, <<16, 2, 1, 8>>, <<17, 0, 1, 12>>}
    \cup {<<6, 1>>, <<7, 1>>, <<8, 1>>, <<0>>, <<18>>}
FramePrograms == {<<f, g>> : f \in FrameFirst, g \in FrameSecond}

InitFrame ==
    InitWith(Preset(FrameValues, FrameSmall),
             {Flatten(q) : q \in FramePrograms},
             {OnePerLine(q) : q \in FramePrograms})

SpecFrame == InitFrame /\ [][Next]_vars

\* Assembler text: the eighteen mnemonics of the instruction set, and words
\* that are none of them: near misses, capitals, registers, integer operands
\* (i32::MAX and the number after it among them) and fragments.
Mnemonics ==
    {<<"h", "l", "t">>, <<"l", "o", "a", "d">>, <<"a", "d", "d">>,
     <<"s", "u", "b">>, <<"m", "u", "l">>, <<"d", "i", "v">>,
     <<"j", "m", "p">>, <<"j", "m", "p", "f">>, <<"j", "m", "p", "b">>,
     <<"e", "q">>, <<"n", "e", "q">>, <<"g", "t">>, <<"l", "t">>,
     <<"g", "t", "q">>, <<"l", "t", "q">>, <<"j", "e", "q">>, <<"l", "w">>,
     <<"s", "w">>}
OtherWords ==
    {<<"l", "m", "p", "b">>, <<"h", "a", "l", "t">>, <<"j", "m", "p", "B">>,
     <<"J", "M", "P", "B">>, <<"L", "o", "a", "d">>,
     <<"l", "o", "a", "d", "1">>, <<"x">>, <<>>, <<"$", "1">>,
     <<"$", "1", "2">>, <<"$", "1", "2", "3">>, <<"$">>,
     <<"#", "1", "0", "0">>, <<"#">>, <<"1", "2", "3">>,
     <<"#", "2", "1", "4", "7", "4", "8", "3", "6", "4", "7">>,
     <<"#", "2", "1", "4", "7", "4", "8", "3", "6", "4", "8">>,
     <<"$", "1", "a">>}
LexWords == Mnemonics \cup OtherWords

\* the texts handed to the Lexer: a word, two words, and the lines of its tests
LexTexts ==
    LexWords
    \cup {v \o <<" ">> \o w : v \in LexWords, w \in LexWords}
    \cup {Flatten(<<<<"l", "o", "a", "d">>, <<" ", "$", "1">>, <<" ", "#", "1", "0", "0">>>>),
          Flatten(<<<<"l", "o", "a", "d">>, <<" ">>, <<"l", "o", "a", "d">>, <<" ", "$", "2">>,
                    <<" ", "$", "1">>, <<" ", "#", "1", "0", "0">>>>)}

InitLexer ==
    /\ registers = Zeroed
    /\ heap = Zeroed
    /\ pc = 0
    /\ program = <<>>
    /\ remainder = <<0, 0>>
    /\ proc = "alive"
    /\ chk \in BOOLEAN
    /\ runpc = "idle"
    /\ is_done = FALSE
    /\ driver = "lexer"
    /\ input = <<>>
    /\ stdin = <<>>
    /\ command_buffer = <<>>
    /\ printed = ""
    /\ steps = 0
    /\ last = NoCall
    /\ prev = NoCall
    /\ src \in LexTexts
    /\ result = NoResult

NextLexer ==
    \/ call_parse_str
    \/ call_parse_instruction

SpecLexer == InitLexer /\ [][NextLexer]_vars

\* VM::run keeps running: its loop iterates while it may and returns when it ends.
SpecFair ==
    Spec /\ WF_vars(run_continue) /\ WF_vars(run_iterate) /\ WF_vars(run_return)

(***************************************************************************)
(* Vocabulary of the properties.                                           *)
(***************************************************************************)
\* the calls of execute_instruction that report "stop"
StopOps == {"HLT", "IGL", "EOP"}

\* this transition made a call of execute_instruction that decoded an instruction
Stepped == steps' = steps + 1

\* the next call of execute_instruction will report "stop"
StopNext ==
    \/ ~ULess(pc, Len(program))
    \/ OpcodeFromByte(ByteAt(program, pc)) \in {"HLT", "IGL"}

\* the operand positions (1..3) that hold register indices
RegisterOperands(op) ==
    CASE op \in {"LOAD", "JMP", "JMPF", "JMPB"} -> {1}
      [] op \in {"JEQ", "LW", "SW"} -> {1, 2}
      [] op \in {"ADD", "SUB", "MUL", "DIV", "EQ", "NEQ", "GT", "LT", "GTQ", "LTQ"}
            -> {1, 2, 3}
      [] OTHER -> {}

\* how many operand bytes follow the opcode byte of an instruction
OperandBytes(op) ==
    CASE op \in {"HLT", "IGL", "EOP", "NONE"} -> 0
      [] op \in {"JMP", "JMPF", "JMPB"} -> 1
      [] OTHER -> 3

\* the instruction of the observed call o was in the buffer with all its operands
Complete(o) == Len(o.a) >= OperandBytes(o.op)

\* every register operand of the observed call o is an index of the register file
RegistersValid(o) ==
    \A k \in RegisterOperands(o.op) : k <= Len(o.a) => o.a[k] < NumRegs

\* For LW and SW: a = register[Rbase] + offset satisfies 0 <= a and a + 4 <= 1000
\* (the comparisons are rearranged so that no sum leaves TLC's integers).
AddrLow(o) == Get(o.regs, o.a[2]) >= -(o.a[3])
AddrHigh(o) == Get(o.regs, o.a[2]) <= (HeapSize - 4) - o.a[3]
\* a itself, when 0 <= a
AddrOf(o) == Get(o.regs, o.a[2]) + o.a[3]

(***************************************************************************)
(* C1.  VM::run repeats single steps and returns exactly at the first step *)
(* that reports stop (HLT, an illegal opcode, or the end of the program):  *)
(* an iteration of its loop ends the loop if and only if the step it made  *)
(* reported stop.                                                          *)
(***************************************************************************)
C1_RunReturnsAtFirstStop ==
    [][(runpc = "call" /\ runpc' = "while")
          => (is_done' <=> last'.op \in StopOps)]_vars

(***************************************************************************)
(* C2.  Once VM::run has reached a step that reports stop (a HLT, an       *)
(* illegal opcode or the end of the program: in particular at once on an   *)
(* empty program), it eventually returns.  (Stated for the runs that      *)
(* neither panic nor use up the step budget of the model.)                 *)
(***************************************************************************)
C2_RunEventuallyReturns ==
    (runpc = "call" /\ StopNext)
        ~> (runpc = "idle" \/ proc # "alive" \/ steps >= MaxSteps)

(***************************************************************************)
(* C3.  An LW or SW step whose address a = register[Rbase] + offset does   *)
(* not satisfy a + 4 <= 1000 is rejected without a crash, and leaves every *)
(* heap byte as it was.                                                    *)
(***************************************************************************)
C3_HeapAccessRejected ==
    [][(/\ Stepped
        /\ last'.op \in {"LW", "SW"}
        /\ Complete(last') /\ RegistersValid(last')
        /\ ~AddrHigh(last'))
          => (proc' = "alive" /\ heap' = heap)]_vars

(***************************************************************************)
(* C4.  In the interactive loop, a line that is no control command and     *)
(* holds a token that is no hexadecimal byte is reported as a parse        *)
(* failure, and leaves the program buffer, the registers, the heap, the pc *)
(* and the remainder as they were: no instruction is executed.             *)
(***************************************************************************)
C4_BadLineExecutesNothing ==
    [][(/\ driver = "repl"
        /\ Len(command_buffer') = Len(command_buffer) + 1
        /\ Head(stdin) \notin {CmdQuit, CmdHistory, CmdProgram, CmdRegisters}
        /\ ~parse_hex(Head(stdin)).ok)
          => (/\ printed' = "Unable to parse hex string (it should be 4 bytes)."
              /\ UNCHANGED vmvars)]_vars

(***************************************************************************)
(* C5.  In every state reached from a fresh machine by byte appends and    *)
(* execution steps, pc <= program length.                                  *)
(***************************************************************************)
C5_PcWithinProgram == pc >= 0 /\ pc <= Len(program)

(***************************************************************************)
(* C6.  A step on an instruction with a register operand byte in 32..255   *)
(* is rejected or clamped; it never crashes the machine.                   *)
(***************************************************************************)
C6_RegisterIndexChecked ==
    (/\ Complete(last)
     /\ \E k \in RegisterOperands(last.op) : last.a[k] >= NumRegs)
        => proc = "alive"

(***************************************************************************)
(* C7.  A DIV step whose divisor register[R2] is 0 ends in a defined       *)
(* outcome, not a trap: the machine stays usable.                          *)
(***************************************************************************)
C7_DivByZeroHandled ==
    (/\ last.op = "DIV"
     /\ Complete(last) /\ RegistersValid(last)
     /\ Get(last.regs, last.a[2]) = 0)
        => proc = "alive"

\* For LW and SW: the observed call o composes an address of a whole heap word
WordAddress(o) ==
    /\ o.op \in {"LW", "SW"}
    /\ Complete(o) /\ RegistersValid(o)
    /\ AddrLow(o) /\ AddrHigh(o)

(***************************************************************************)
(* C8.  For every i32 v in register[Rsrc] and every composed address       *)
(* a = register[Rbase] + offset with 0 <= a and a + 4 <= 1000: after an SW *)
(* step and then an LW step at the same composed address, register[Rdst]   *)
(* is v.                                                                   *)
(***************************************************************************)
C8_StoreLoadRoundTrip ==
    (/\ prev.op = "SW" /\ WordAddress(prev)
     /\ last.op = "LW" /\ WordAddress(last)
     /\ AddrOf(last) = AddrOf(prev))
        => Get(registers, last.a[1]) = Get(prev.regs, prev.a[1])

\* the usize u is the number n (n an i32): a negative representative stands
\* for a number above every i32
IsNumber(u, n) == u >= 0 /\ u = n

(***************************************************************************)
(* C9.  A JEQ Rtarget, Rflag step at pc = p ends with pc = register[Rtarget]*)
(* when register[Rflag] is 1, and with pc = p + 4 for every other flag; in *)
(* both cases every register is as before.                                 *)
(***************************************************************************)
C9_JeqSemantics ==
    (last.op = "JEQ" /\ Complete(last) /\ RegistersValid(last))
        => /\ Get(last.regs, last.a[2]) = 1
                => IsNumber(pc, Get(last.regs, last.a[1]))
           /\ Get(last.regs, last.a[2]) # 1 => IsNumber(pc, last.p + 4)
           /\ registers = last.regs

(***************************************************************************)
(* C10.  A JMPF R step at pc = p ends with pc = (p + 2) + register[R], and *)
(* a JMPB R step at pc = p ends with pc = (p + 2) - register[R], for every *)
(* register value for which that number is not negative.                   *)
(***************************************************************************)
C10_RelativeJumps ==
    LET d == Get(last.regs, last.a[1])
    IN  (Complete(last) /\ RegistersValid(last))
            => /\ (last.op = "JMPF" /\ d >= -(last.p + 2))
                    => IsNumber(pc, (last.p + 2) + d)
               /\ (last.op = "JMPB" /\ d <= last.p + 2)
                    => IsNumber(pc, (last.p + 2) - d)

\* every register but i is after the transition what it was before
OtherRegistersKept(i) ==
    \A j \in (0..(NumRegs - 1)) \ {i} : Get(registers', j) = Get(registers, j)

ThreeRegisters(o) == Complete(o) /\ RegistersValid(o) /\ Len(o.a) = 3

(***************************************************************************)
(* C12.  An ADD, SUB or MUL step writes to register[Rd] the two's          *)
(* complement wraparound result of the operation on register[R1] and       *)
(* register[R2], also when the exact result does not fit an i32, and       *)
(* advances pc by 4.                                                       *)
(***************************************************************************)
C12_ArithmeticWraps ==
    [][(/\ Stepped
        /\ last'.op \in {"ADD", "SUB", "MUL"} /\ ThreeRegisters(last'))
          => (/\ proc' = "alive"
              /\ Get(registers', last'.a[3])
                    = ArithWrap(last'.op, Get(registers, last'.a[1]),
                                Get(registers, last'.a[2]))
              /\ IsNumber(pc', pc + 4))]_vars

(***************************************************************************)
(* C13.  An EQ, NEQ, GT, LT, GTQ or LTQ step writes to register[Rd] 1 when *)
(* the signed relation ==, !=, >, <, >=, <= holds between register[R1] and *)
(* register[R2], and 0 when it does not; it writes no other value.         *)
(***************************************************************************)
C13_ComparisonWritesFlag ==
    [][(/\ Stepped
        /\ last'.op \in {"EQ", "NEQ", "GT", "LT", "GTQ", "LTQ"}
        /\ ThreeRegisters(last'))
          => LET x == Get(registers, last'.a[1])
                 y == Get(registers, last'.a[2])
                 flag == Get(registers', last'.a[3])
             IN  /\ proc' = "alive"
                 /\ flag \in {0, 1}
                 /\ flag = 1 <=> CASE last'.op = "EQ" -> x = y
                                   [] last'.op = "NEQ" -> ~(x = y)
                                   [] last'.op = "GT" -> ~(x < y) /\ ~(x = y)
                                   [] last'.op = "LT" -> x < y
                                   [] last'.op = "GTQ" -> ~(x < y)
                                   [] last'.op = "LTQ" -> x < y \/ x = y]_vars

\* lt $0 $1 $2 was executed with the registers -1 and 1, and wrote 1
C13_Witness ==
    /\ proc = "alive"
    /\ last.op = "LT" /\ last.a = <<0, 1, 2>>
    /\ Get(last.regs, 0) = -1 /\ Get(last.regs, 1) = 1
    /\ Get(registers, 2) = 1

\* The program the call of execute_instruction made by this transition ran on:
\* the REPL first appends the bytes of the line it read, when the line parses.
ProgramStepped ==
    IF driver = "repl" /\ stdin # <<>> /\ parse_hex(Head(stdin)).ok
        THEN program \o parse_hex(Head(stdin)).bytes
    ELSE program

(***************************************************************************)
(* C14.  A step whose opcode byte is 0 (HLT) or one of 18..255 (no         *)
(* opcode) reports stop, advances pc by exactly 1 and leaves every         *)
(* register, the heap, the remainder and the program buffer as they were.  *)
(***************************************************************************)
C14_StopStepFrame ==
    [][(/\ Stepped
        /\ (ByteAt(ProgramStepped, pc) = 0 \/ ByteAt(ProgramStepped, pc) >= 18))
          => (/\ proc' = "alive"
              /\ last'.ret = FALSE
              /\ IsNumber(pc', pc + 1)
              /\ registers' = registers /\ heap' = heap /\ remainder' = remainder
              /\ program' = ProgramStepped)]_vars

\* the byte 200 was executed as an instruction on a machine with register 0 = -7
C14_Witness ==
    /\ proc = "alive"
    /\ last.op = "IGL" /\ last.p = 0 /\ ~last.ret
    /\ program[1] = 200 /\ pc = 1
    /\ Get(registers, 0) = -7 /\ registers = last.regs

\* this transition made a call of execute_instruction: run_once, an iteration
\* of run, or the REPL on a line that is no control command
StepCalled ==
    \/ run_once
    \/ run_iterate
    \/ /\ driver = "repl"
       /\ Len(command_buffer') = Len(command_buffer) + 1
       /\ Head(stdin) \notin {CmdQuit, CmdHistory, CmdProgram, CmdRegisters}

(***************************************************************************)
(* C15.  When pc >= program length, a step reports "no more instructions"  *)
(* (it returns false without decoding) and changes nothing: registers,     *)
(* heap, pc, remainder and program are after the step what they were, so   *)
(* repeated steps find the same state and give the same report.            *)
(***************************************************************************)
C15_EndOfProgramStepIdle ==
    [][(StepCalled /\ ~ULess(pc, Len(ProgramStepped)))
          => (/\ proc' = "alive"
              /\ last'.op = "EOP" /\ last'.ret = FALSE
              /\ registers' = registers /\ heap' = heap /\ pc' = pc
              /\ remainder' = remainder
              /\ program' = ProgramStepped
              /\ steps' = steps)]_vars

\* two calls in a row found the pc at the end of a program that is not empty
C15_Witness ==
    /\ proc = "alive"
    /\ prev.op = "EOP" /\ last.op = "EOP"
    /\ Len(program) > 0 /\ pc = Len(program)
    /\ prev.p = pc /\ last.p = pc
    /\ ~prev.ret /\ ~last.ret

\* Lines of two-character hexadecimal tokens, each with the bytes it spells
TypedLines ==
    {[line |-> HexLine(b), bytes |-> b] :
        b \in {<<0>>, <<1, 0, 3, 229>>, <<1, 1, 1, 0, 0>>, <<6, 1>>}}
    \cup {[line |-> << <<"C", "8">> >>, bytes |-> <<200>>]}

(***************************************************************************)
(* C16.  In the interactive loop, a line that is no control command and    *)
(* whose tokens are all two-character hexadecimal bytes has its bytes      *)
(* appended to the program in the order given, and then exactly one call   *)
(* of the step is made, at the pc the machine had: it decodes one          *)
(* instruction, or finds the pc at the end of the program.                 *)
(***************************************************************************)
C16_GoodLineAppendsAndSteps ==
    [][\A t \in TypedLines :
          (/\ driver = "repl" /\ stdin # <<>> /\ Head(stdin) = t.line
           /\ Len(command_buffer') = Len(command_buffer) + 1)
              => (/\ program' = program \o t.bytes
                  /\ printed' = ""
                  /\ prev' = last
                  /\ last'.by = "repl" /\ last'.p = pc
                  /\ IF ULess(pc, Len(program \o t.bytes))
                        THEN steps' = steps + 1 /\ last'.op # "EOP"
                     ELSE steps' = steps /\ last'.op = "EOP")]_vars

\* the line "01 00 03 e5" was read after the line "00": its four bytes follow
\* the earlier byte in the program, and the one step it triggered was the LOAD
C16_Witness ==
    /\ driver = "repl" /\ proc = "alive"
    /\ command_buffer = <<HexLine(<<0>>), HexLine(<<1, 0, 3, 229>>)>>
    /\ program = <<0, 1, 0, 3, 229>>
    /\ prev.op = "HLT" /\ last.op = "LOAD" /\ last.by = "repl"
    /\ Get(registers, 0) = 997 /\ pc = 5

\* the sequence s is a prefix of the sequence t
IsPrefix(s, t) == Len(s) <= Len(t) /\ SubSeq(t, 1, Len(s)) = s

(***************************************************************************)
(* C17.  The program buffer is append-only: add_program_byte adds exactly  *)
(* one byte at the end and leaves the existing bytes as they are, and no   *)
(* call of the step (run_once or run, whatever the opcode) changes the     *)
(* buffer; so the buffer is a prefix of every later buffer.                *)
(***************************************************************************)
C17_ProgramAppendOnly ==
    [][/\ input' # input => program' = Append(program, Head(input))
       /\ (driver = "api" /\ input' = input) => program' = program
       /\ StepCalled => program' = ProgramStepped
       /\ IsPrefix(program, program')]_vars

\* two instructions were fed byte by byte and the first one was executed in between
C17_Witness ==
    /\ driver = "api" /\ proc = "alive"
    /\ input = <<>>
    /\ program = <<1, 0, 3, 229, 17, 0, 0, 0>>
    /\ last.op = "LOAD" /\ Len(last.a) = 3
    /\ pc = 4

\* the number of bytes the instruction of the observed call o consumes when it
\* takes no jump
Consumed(o) == 1 + OperandBytes(o.op)

\* the observed call o took no jump: it is no JMP, JMPF or JMPB, and a JEQ only
\* with a flag register other than 1
NoJump(o) ==
    /\ o.op \notin {"JMP", "JMPF", "JMPB", "EOP", "NONE"}
    /\ o.op = "JEQ" => Get(o.regs, o.a[2]) # 1

(***************************************************************************)
(* C18.  Every step that decodes an instruction and takes no jump ends     *)
(* with pc = pc before + the bytes the opcode consumes: 1 for HLT and the  *)
(* illegal opcodes, 4 for LOAD, ADD, SUB, MUL, DIV, the six comparisons,   *)
(* LW, SW and a JEQ that does not jump.                                    *)
(***************************************************************************)
C18_PcAdvancesByWidth ==
    [][(/\ Stepped
        /\ Complete(last') /\ RegistersValid(last') /\ NoJump(last'))
          => (proc' = "alive" /\ IsNumber(pc', pc + Consumed(last')))]_vars

\* the big-endian 32-bit word b0 b1 b2 b3, read as an i32
BigEndianWord(b0, b1, b2, b3) ==
    ((IF b0 >= 128 THEN b0 - 256 ELSE b0) * 16777216) + (b1 * 65536) + (b2 * 256) + b3

\* the heap h holds at a, a+1, a+2, a+3 the bytes of the i32 v, most
\* significant first
HoldsWord(h, a, v) ==
    BigEndianWord(Get(h, a), Get(h, a + 1), Get(h, a + 2), Get(h, a + 3)) = v

(***************************************************************************)
(* C19.  An SW step with an in-bounds address a = register[Rbase] + offset *)
(* writes exactly heap[a..a+3], with the bytes of register[Rsrc] from the  *)
(* most to the least significant, and leaves every other heap byte and     *)
(* every register as it was; an LW step with an in-bounds address a sets   *)
(* register[Rdst] to the big-endian word heap[a..a+3] and leaves the heap  *)
(* as it was.                                                              *)
(***************************************************************************)
C19_HeapWordTransfer ==
    [][(Stepped /\ WordAddress(last'))
          => LET a == AddrOf(last')
             IN  /\ last'.op = "SW"
                    => /\ HoldsWord(heap', a, Get(registers, last'.a[1]))
                       /\ \A k \in (DOMAIN heap \cup DOMAIN heap') \ (a..(a + 3)) :
                              Get(heap', k) = Get(heap, k)
                       /\ registers' = registers
                 /\ last'.op = "LW"
                    => /\ HoldsWord(heap, a, Get(registers', last'.a[1]))
                       /\ heap' = heap]_vars

(***************************************************************************)
(* C20.  A DIV R1, R2, Rd step with register[R2] # 0 sets register[Rd] to  *)
(* register[R1] + register[R2], the value ADD would produce, and sets the  *)
(* remainder to register[R1] mod register[R2] as an unsigned 32-bit value. *)
(***************************************************************************)
C20_DivAddsAndKeepsRemainder ==
    [][(/\ Stepped
        /\ last'.op = "DIV" /\ ThreeRegisters(last')
        /\ Get(registers, last'.a[2]) # 0)
          => LET x == Get(registers, last'.a[1])
                 y == Get(registers, last'.a[2])
             IN  /\ proc' = "alive"
                 /\ Get(registers', last'.a[3]) = ArithWrap("ADD", x, y)
                 /\ remainder' = I32AsU32(RustRem(x, y))]_vars

(***************************************************************************)
(* C21.  No step reads the program at an index >= its length: a step whose *)
(* instruction is cut short by the end of the buffer (an opcode byte whose  *)
(* operand bytes are not all present) reads nothing past the end and does   *)
(* not crash.                                                               *)
(***************************************************************************)
C21_NoReadPastEnd ==
    [][Stepped
          => (/\ proc' # PanicProgram
              /\ ~Complete(last') => proc' = "alive")]_vars

\* the register an instruction of this opcode writes: its operand position
\* (0 for the opcodes that write no register)
DestinationOperand(op) ==
    CASE op \in {"LOAD", "LW"} -> 1
      [] op \in {"ADD", "SUB", "MUL", "DIV", "EQ", "NEQ", "GT", "LT", "GTQ", "LTQ"} -> 3
      [] OTHER -> 0

(***************************************************************************)
(* C22.  Each successful step changes only what its opcode names: LOAD,    *)
(* ADD, SUB, MUL, DIV, the six comparisons and LW change at most their one *)
(* destination register; JMP, JMPF, JMPB, JEQ and SW (and the stop         *)
(* opcodes) change no register; the heap changes only in SW steps; the     *)
(* remainder changes only in DIV steps.                                    *)
(***************************************************************************)
C22_StepFrame ==
    [][(Stepped /\ proc' = "alive")
          => LET d == DestinationOperand(last'.op)
             IN  /\ IF d = 0 THEN registers' = registers
                    ELSE OtherRegistersKept(last'.a[d])
                 /\ last'.op # "SW" => heap' = heap
                 /\ last'.op # "DIV" => remainder' = remainder]_vars

\* A store followed by a division: the division succeeds with a word on the
\* heap, writes register 2 and the remainder, and keeps the heap and the
\* other registers.
C22_Witness ==
    /\ proc = "alive"
    /\ prev.op = "SW" /\ last.op = "DIV" /\ last.a = <<0, 1, 0>>
    /\ heap # Zeroed
    /\ remainder # <<0, 0>>
    /\ Get(registers, 0) # Get(last.regs, 0)
    /\ Get(registers, 1) = Get(last.regs, 1)

\* the opcode whose name is the mnemonic w, and the illegal opcode for a
\* string that is no mnemonic of the instruction set
SameName ==
    [hlt |-> "HLT", load |-> "LOAD", add |-> "ADD", sub |-> "SUB", mul |-> "MUL",
     div |-> "DIV", jmp |-> "JMP", jmpf |-> "JMPF", jmpb |-> "JMPB", eq |-> "EQ",
     neq |-> "NEQ", gt |-> "GT", lt |-> "LT", gtq |-> "GTQ", ltq |-> "LTQ",
     jeq |-> "JEQ", lw |-> "LW", sw |-> "SW"]
NamedOpcode(w) == IF w \in DOMAIN SameName THEN SameName[w] ELSE "IGL"

\* the text is one word of lowercase letters: the lexer hands all of it to
\* the mnemonic-to-opcode conversion
WordOfLetters(s) == s # <<>> /\ \A i \in 1..Len(s) : s[i] \in LowerCase

(***************************************************************************)
(* C23.  The mnemonic-to-opcode conversion maps each lowercase mnemonic of *)
(* the instruction set (hlt, load, add, sub, mul, div, jmp, jmpf, jmpb,    *)
(* eq, neq, gt, lt, gtq, ltq, jeq, lw, sw) to the opcode of the same name, *)
(* and every other string to the illegal opcode: the token the lexer       *)
(* returns for a word of lowercase letters is that opcode.                 *)
(***************************************************************************)
C23_MnemonicToOpcode ==
    (result.by = "parse_str" /\ WordOfLetters(src))
        => /\ result.out.ok
           /\ result.out.tokens = <<[type |-> "Opcode", val |-> NamedOpcode(Join(src))]>>

====
